---- MODULE Spec2Model ----
(***************************************************************************)
(* Model of the recommendations service (src/recommendations_service.py):  *)
(* the offline store Recommendations, the /recommendations_offline,        *)
(* /recommendations_online and /recommendations handlers, and the          *)
(* responses of the history and similarity services they call              *)
(* (src/history_service.py, src/features_service.py).                      *)
(***************************************************************************)
EXTENDS Integers, Sequences, FiniteSets, TLC

VARIABLES
    recs_personal,    \* Recommendations._recs["personal"]: rows (user_id, track_id)
    recs_default,     \* Recommendations._recs["default"]: track_id column
    stats,            \* Recommendations._stats
    endpoint,         \* the route of the request being served
    user_id,          \* request parameter user_id
    k,                \* request parameter k
    pc,               \* position of the handler
    recs_offline,     \* recs_offline["recs"] in recommendations
    recs_online,      \* recs_online["recs"] in recommendations
    events,           \* recommendations_online: events
    idx,              \* recommendations_online: position of the for loop in events
    items,            \* recommendations_online: items
    scores,           \* recommendations_online: scores
    offline_outcome,  \* which branch of Recommendations.get the lookup took
    hist_resp,        \* the response the history service gave
    sim_calls,        \* the responses the similarity service gave, one per call issued
    response,         \* what the caller of the endpoint receives
    requests          \* number of requests received so far

vars == <<recs_personal, recs_default, stats, endpoint, user_id, k, pc,
          recs_offline, recs_online, events, idx, items, scores,
          offline_outcome, hist_resp, sim_calls, response, requests>>

----------------------------------------------------------------------------
(* Bounds and input domains *)

MaxK == 2
MaxRequests == 2
MaxLen == 3
MaxBlendK == 4
HistoryK == 3

Tracks == 1 .. 4
Users == {1, 2}
Scores == {1, 2}

Min(a, b) == IF a <= b THEN a ELSE b

\* Python ids[:n] and ids[n:] for n >= 0
Take(s, n) == SubSeq(s, 1, Min(n, Len(s)))
Drop(s, n) == SubSeq(s, Min(n, Len(s)) + 1, Len(s))

SeqsUpTo(S, n) == UNION {[1 .. m -> S] : m \in 0 .. n}

Row(u, t) == [user_id |-> u, track_id |-> t]

\* contents of recommendations.parquet: a user with several rows, a user with
\* exactly one row, a user with none, a user whose rows repeat a track
PersonalTables ==
    { << Row(1, 3), Row(2, 1), Row(2, 2), Row(2, 3) >>,
      << Row(1, 2), Row(1, 1), Row(1, 2) >>,
      << Row(2, 2), Row(1, 1), Row(1, 3) >> }

\* contents of top_popular.parquet
DefaultLists == { << >>, << 3, 1, 2 >> }

\* rows of personal_als.parquet for one user, most recent first
HistoryRows == { << >>, << 1 >>, << 2, 1 >>, << 3, 1, 2, 3 >> }

Sim(t, s) == [item_id_2 |-> t, track_seq |-> s]

\* rows of similar.parquet for one item
SimRows ==
    { << >>,
      << Sim(1, 2) >>,
      << Sim(2, 1), Sim(3, 1) >>,
      << Sim(3, 2), Sim(1, 1), Sim(2, 2) >> }

----------------------------------------------------------------------------
(* Responses of the collaborating services *)

NoResp == [kind |-> "none", ids |-> << >>, scores |-> << >>]

\* history_service.get: head(k) of the user's rows, as {"track_id": [...]}
HistoryOk(rows) == [kind |-> "ok", ids |-> Take(rows, HistoryK), scores |-> << >>]

HistoryResponses ==
    { [kind |-> "raise", ids |-> << >>, scores |-> << >>],
      [kind |-> "non200", ids |-> << >>, scores |-> << >>] }
    \cup { HistoryOk(rows) : rows \in HistoryRows }

\* features_service.get: head(k) of the item's rows, as two parallel lists
SimOk(rows, n) ==
    LET h == Take(rows, n)
    IN  [kind |-> "ok",
         ids |-> [i \in 1 .. Len(h) |-> h[i].item_id_2],
         scores |-> [i \in 1 .. Len(h) |-> h[i].track_seq]]

\* payloads of an unexpected shape, with status 200:
\*   the score list one entry shorter than the id list,
\*   the score field not a list (JSON null or number),
\*   a score that cannot be compared (JSON null, here 0)
SimMalformed(n) ==
    LET r == SimOk(<< Sim(2, 2), Sim(1, 1) >>, n)
    IN  { [r EXCEPT !.scores = Take(r.scores, Len(r.scores) - 1)],
          [r EXCEPT !.kind = "scores_not_list", !.scores = << >>],
          [r EXCEPT !.scores = [i \in 1 .. Len(r.scores) |-> IF i = 1 THEN 0 ELSE r.scores[i]]] }

SimFailures ==
    { [kind |-> "raise", ids |-> << >>, scores |-> << >>],
      [kind |-> "non200", ids |-> << >>, scores |-> << >>],
      [kind |-> "badjson", ids |-> << >>, scores |-> << >>] }

SimResponses(n) ==
    SimFailures \cup { SimOk(rows, n) : rows \in SimRows } \cup SimMalformed(n)

----------------------------------------------------------------------------
(* Recommendations.get *)

\* DataFrame.loc[user_id] on the table indexed by user_id: the user's rows in order
Loc(table, u) ==
    LET Match(r) == r.user_id = u
        sel == SelectSeq(table, Match)
    IN  [i \in 1 .. Len(sel) |-> sel[i].track_id]

\* no row: KeyError, the default list is served; exactly one row: .loc gives a
\* Series, recs["track_id"] is a scalar without to_list, the AttributeError is
\* caught by `except Exception` and [] is returned; several rows: the personal list
Get(personal, default, st, u, n) ==
    LET rows == Loc(personal, u)
    IN  IF Len(rows) = 0
        THEN [recs |-> Take(default, n),
              stats |-> [st EXCEPT !.request_default_count = @ + 1],
              branch |-> "default"]
        ELSE IF Len(rows) = 1
        THEN [recs |-> << >>, stats |-> st, branch |-> "error"]
        ELSE [recs |-> Take(rows, n),
              stats |-> [st EXCEPT !.request_personal_count = @ + 1],
              branch |-> "personal"]

----------------------------------------------------------------------------
(* dedup_ids *)

RECURSIVE DedupLoop(_, _, _, _)
DedupLoop(ids, i, seen, result) ==
    IF i > Len(ids) THEN result
    ELSE IF ids[i] \in seen
         THEN DedupLoop(ids, i + 1, seen, result)
         ELSE DedupLoop(ids, i + 1, seen \cup {ids[i]}, Append(result, ids[i]))

dedup_ids_keep_all(ids) == ids

dedup_ids(ids) == DedupLoop(ids, 1, {}, << >>)

----------------------------------------------------------------------------
(* recommendations_online: pooling, sorting *)

\* the body of the for loop for one response of the similarity service
SimEffect(resp, its, scs) ==
    IF resp.kind = "ok"
    THEN [items |-> its \o resp.ids, scores |-> scs \o resp.scores]
    ELSE IF resp.kind = "scores_not_list"
    THEN [items |-> its \o resp.ids, scores |-> scs]
    ELSE [items |-> its, scores |-> scs]

\* the for loop moves to the next history track whatever the response was
NextTrack_break_on_failure(resp, i, n) ==
    IF resp.kind \in {"raise", "non200", "badjson"} THEN n + 1 ELSE i + 1

NextTrack(resp, i, n) == i + 1

\* list(zip(items, scores))
Zip(its, scs) ==
    [i \in 1 .. Min(Len(its), Len(scs)) |-> [item |-> its[i], score |-> scs[i]]]

\* comparing a null score raises TypeError; a list of one element is not compared
SortRaises(combined) ==
    Len(combined) >= 2 /\ \E i \in 1 .. Len(combined) : combined[i].score \notin Scores

\* ties put in front, as an ascending sort reversed afterwards would leave them
InsertDesc_ties_reversed(acc, x) ==
    LET p == Cardinality({j \in 1 .. Len(acc) : acc[j].score > x.score})
    IN  SubSeq(acc, 1, p) \o << x >> \o SubSeq(acc, p + 1, Len(acc))

InsertDesc(acc, x) ==
    LET p == Cardinality({j \in 1 .. Len(acc) : acc[j].score >= x.score})
    IN  SubSeq(acc, 1, p) \o << x >> \o SubSeq(acc, p + 1, Len(acc))

RECURSIVE SortLoop(_, _, _)
SortLoop(combined, i, acc) ==
    IF i > Len(combined) THEN acc
    ELSE SortLoop(combined, i + 1, InsertDesc(acc, combined[i]))

\* sorted(combined, key=lambda x: x[1], reverse=True): stable, descending
Sorted(combined) == SortLoop(combined, 1, << >>)

ItemsOf(combined) == [i \in 1 .. Len(combined) |-> combined[i].item]

----------------------------------------------------------------------------
(* recommendations: the blend *)

RECURSIVE InterleaveLoop(_, _, _, _, _)
InterleaveLoop(off, on, i, m, acc) ==
    IF i > m THEN acc
    ELSE InterleaveLoop(off, on, i + 1, m, Append(Append(acc, off[i]), on[i]))

Blended_remainder_first(off, on, n) ==
    LET m == Min(Len(off), Len(on))
    IN  Take(dedup_ids(Drop(off, m) \o Drop(on, m) \o InterleaveLoop(off, on, 1, m, << >>)), n)

Blended_no_remainder(off, on, n) ==
    LET m == Min(Len(off), Len(on))
    IN  Take(dedup_ids(InterleaveLoop(off, on, 1, m, << >>)), n)

Blended_online_first(off, on, n) ==
    LET m == Min(Len(off), Len(on))
    IN  Take(dedup_ids(InterleaveLoop(on, off, 1, m, << >>) \o Drop(off, m) \o Drop(on, m)), n)

Blended_no_truncation(off, on, n) ==
    LET m == Min(Len(off), Len(on))
    IN  dedup_ids(InterleaveLoop(off, on, 1, m, << >>) \o Drop(off, m) \o Drop(on, m))

Blended(off, on, n) ==
    LET m == Min(Len(off), Len(on))
    IN  Take(dedup_ids(InterleaveLoop(off, on, 1, m, << >>) \o Drop(off, m) \o Drop(on, m)), n)

\* except Exception in recommendations: an empty list, status 200
BlendRecovered_propagates == [status |-> 500, recs |-> << >>]

BlendRecovered == [status |-> 200, recs |-> << >>]

----------------------------------------------------------------------------
(* The state machine *)

NoResponse == [status |-> 0, recs |-> << >>]

Init ==
    /\ recs_personal \in PersonalTables
    /\ recs_default \in DefaultLists
    /\ stats = [request_personal_count |-> 0, request_default_count |-> 0]
    /\ endpoint = "none"
    /\ user_id = 1
    /\ k = 0
    /\ pc = "idle"
    /\ recs_offline = << >>
    /\ recs_online = << >>
    /\ events = << >>
    /\ idx = 1
    /\ items = << >>
    /\ scores = << >>
    /\ offline_outcome = "none"
    /\ hist_resp = NoResp
    /\ sim_calls = << >>
    /\ response = NoResponse
    /\ requests = 0

\* a request arrives at one of the three routes, once the previous one is
\* answered; the handler's locals are fresh, the store and its counters stay
Receive ==
    /\ pc \in {"idle", "done"}
    /\ requests < MaxRequests
    /\ requests' = requests + 1
    /\ \E e \in {"offline", "online", "blend"}, u \in Users, n \in 0 .. MaxK :
          /\ endpoint' = e
          /\ user_id' = u
          /\ k' = n
          /\ pc' = IF e = "online" THEN "history" ELSE "offline"
    /\ recs_offline' = << >>
    /\ recs_online' = << >>
    /\ events' = << >>
    /\ idx' = 1
    /\ items' = << >>
    /\ scores' = << >>
    /\ offline_outcome' = "none"
    /\ hist_resp' = NoResp
    /\ sim_calls' = << >>
    /\ response' = NoResponse
    /\ UNCHANGED <<recs_personal, recs_default, stats>>

\* recommendations_offline: app.state.recs.get(user_id, k)
RecommendationsOffline ==
    /\ pc = "offline"
    /\ LET g == Get(recs_personal, recs_default, stats, user_id, k)
       IN  /\ stats' = g.stats
           /\ offline_outcome' = g.branch
           /\ recs_offline' = g.recs
           /\ IF endpoint = "offline"
              THEN /\ response' = [status |-> 200, recs |-> g.recs]
                   /\ pc' = "done"
              ELSE /\ response' = response
                   /\ pc' = "history"
    /\ UNCHANGED <<recs_personal, recs_default, endpoint, user_id, k, recs_online,
                   events, idx, items, scores, hist_resp, sim_calls, requests>>

\* an exception leaves recommendations_offline: /recommendations catches it
\* (except Exception), /recommendations_offline has no handler
OfflineRaise ==
    /\ pc = "offline"
    /\ offline_outcome' = "raised"
    /\ response' = IF endpoint = "blend" THEN BlendRecovered
                   ELSE [status |-> 500, recs |-> << >>]
    /\ pc' = "done"
    /\ UNCHANGED <<recs_personal, recs_default, stats, endpoint, user_id, k,
                   recs_offline, recs_online, events, idx, items, scores,
                   hist_resp, sim_calls, requests>>

\* recommendations_online returns {"recs": recs}: to the caller of the route, or
\* to recommendations, which goes on to the blend
ReturnOnline(recs) ==
    /\ recs_online' = recs
    /\ IF endpoint = "online"
       THEN /\ response' = [status |-> 200, recs |-> recs]
            /\ pc' = "done"
       ELSE /\ response' = response
            /\ pc' = "blend"

\* recommendations_online: the history call and the two early returns
OnlineHistory ==
    /\ pc = "history"
    /\ \E resp \in HistoryResponses :
          /\ hist_resp' = resp
          /\ IF resp.kind = "ok" /\ resp.ids # << >>
             THEN /\ events' = resp.ids
                  /\ idx' = 1
                  /\ pc' = "similar"
                  /\ UNCHANGED <<recs_online, response>>
             ELSE /\ ReturnOnline(<< >>)
                  /\ UNCHANGED <<events, idx>>
    /\ UNCHANGED <<recs_personal, recs_default, stats, endpoint, user_id, k,
                   recs_offline, items, scores, offline_outcome, sim_calls, requests>>

\* the history service never answers: requests.post is called without a
\* timeout, so the handler stays in the call
HistoryNoResponse ==
    /\ pc = "history"
    /\ pc' = "blocked_history"
    /\ UNCHANGED <<recs_personal, recs_default, stats, endpoint, user_id, k,
                   recs_offline, recs_online, events, idx, items, scores,
                   offline_outcome, hist_resp, sim_calls, response, requests>>

\* the similarity service never answers the call for events[idx]: no timeout
\* either, the handler stays in the call and the loop goes no further
SimilarNoResponse ==
    /\ pc = "similar"
    /\ pc' = "blocked_similar"
    /\ UNCHANGED <<recs_personal, recs_default, stats, endpoint, user_id, k,
                   recs_offline, recs_online, events, idx, items, scores,
                   offline_outcome, hist_resp, sim_calls, response, requests>>

\* recommendations_online: one pass of the for loop over events
OnlineSimilar ==
    /\ pc = "similar"
    /\ \E resp \in SimResponses(k) :
          LET eff == SimEffect(resp, items, scores)
              nxt == NextTrack(resp, idx, Len(events))
          IN  /\ sim_calls' = Append(sim_calls, resp)
              /\ items' = eff.items
              /\ scores' = eff.scores
              /\ idx' = nxt
              /\ pc' = IF nxt > Len(events) THEN "assemble" ELSE "similar"
    /\ UNCHANGED <<recs_personal, recs_default, stats, endpoint, user_id, k,
                   recs_offline, recs_online, events, offline_outcome, hist_resp,
                   response, requests>>

\* recommendations_online: zip, sort, dedup, return; a TypeError of the sort is
\* caught by the outer handler, which returns []
OnlineAssemble ==
    /\ pc = "assemble"
    /\ LET combined == Zip(items, scores)
       IN  IF SortRaises(combined)
           THEN ReturnOnline(<< >>)
           ELSE ReturnOnline(dedup_ids(ItemsOf(Sorted(combined))))
    /\ UNCHANGED <<recs_personal, recs_default, stats, endpoint, user_id, k,
                   recs_offline, events, idx, items, scores, offline_outcome,
                   hist_resp, sim_calls, requests>>

\* recommendations: interleave, append the remainders, dedup, truncate, return
Blend ==
    /\ pc = "blend"
    /\ response' = [status |-> 200, recs |-> Blended(recs_offline, recs_online, k)]
    /\ pc' = "done"
    /\ UNCHANGED <<recs_personal, recs_default, stats, endpoint, user_id, k,
                   recs_offline, recs_online, events, idx, items, scores,
                   offline_outcome, hist_resp, sim_calls, requests>>

Next ==
    \/ Receive
    \/ RecommendationsOffline
    \/ OfflineRaise
    \/ OnlineHistory
    \/ HistoryNoResponse
    \/ OnlineSimilar
    \/ SimilarNoResponse
    \/ OnlineAssemble
    \/ Blend

Spec == Init /\ [][Next]_vars

\* the event loop runs a handler whenever it can take a step, and a call that
\* was issued is either answered or never answered
SpecLive == Spec /\ WF_vars(Next)

\* the blend step on its own: every pair of lists and every k
InitBlend ==
    /\ recs_personal = << >>
    /\ recs_default = << >>
    /\ stats = [request_personal_count |-> 0, request_default_count |-> 0]
    /\ endpoint = "blend"
    /\ user_id = 1
    /\ k \in 0 .. MaxBlendK
    /\ pc = "blend"
    /\ recs_offline \in SeqsUpTo(Tracks, MaxLen)
    /\ recs_online \in SeqsUpTo(Tracks, MaxLen)
    /\ events = << >>
    /\ idx = 1
    /\ items = << >>
    /\ scores = << >>
    /\ offline_outcome = "none"
    /\ hist_resp = NoResp
    /\ sim_calls = << >>
    /\ response = NoResponse
    /\ requests = 1

NextBlend == Blend

SpecBlend == InitBlend /\ [][NextBlend]_vars

----------------------------------------------------------------------------
(* Vocabulary of the properties *)

Range(s) == {s[i] : i \in 1 .. Len(s)}

NoDup(s) == \A i, j \in 1 .. Len(s) : i # j => s[i] # s[j]

FirstIdx(s, x) == CHOOSE i \in 1 .. Len(s) : s[i] = x /\ \A j \in 1 .. i - 1 : s[j] # x

\* a and b both occur in s, and a occurs first
Before(s, a, b) == a \in Range(s) /\ b \in Range(s) /\ FirstIdx(s, a) < FirstIdx(s, b)

\* /recommendations has returned the blended list
BlendDone == pc = "done" /\ endpoint = "blend" /\ offline_outcome # "raised"

\* the reference of the blend, by positions: offline[0], online[0], ...,
\* offline[m-1], online[m-1], then the remainder of the longer list
RefInterleaved(off, on) ==
    LET m == Min(Len(off), Len(on))
    IN  [j \in 1 .. Len(off) + Len(on) |->
            IF j <= 2 * m
            THEN IF j % 2 = 1 THEN off[(j + 1) \div 2] ELSE on[j \div 2]
            ELSE IF Len(off) > m THEN off[j - m] ELSE on[j - m]]

\* only the first occurrence of each value, in order
FirstOccurrences(s) ==
    LET keep == {i \in 1 .. Len(s) : \A j \in 1 .. i - 1 : s[j] # s[i]}
    IN  [p \in 1 .. Cardinality(keep) |->
            s[CHOOSE i \in keep : Cardinality({j \in keep : j <= i}) = p]]

FirstN(s, n) == [p \in 1 .. Min(n, Len(s)) |-> s[p]]

RefBlend(off, on, n) == FirstN(FirstOccurrences(RefInterleaved(off, on)), n)

----------------------------------------------------------------------------
(* C1 .. C4: the blend step, for every pair of lists (SpecBlend) *)

\* C1: the list returned by the blend step of /recommendations contains no
\* TrackId more than once, whatever the offline list, the online list and k.
C1_NoDuplicates == BlendDone => NoDup(response.recs)

C1_Witness ==
    /\ BlendDone
    /\ Range(recs_offline) \cap Range(recs_online) # {}
    /\ ~NoDup(recs_offline)
    /\ Len(response.recs) >= 2

\* C2: the list returned by /recommendations has length <= k, and for k = 0 it
\* is the empty list.
C2_LengthBound ==
    BlendDone => /\ Len(response.recs) <= k
                 /\ (k = 0 => response.recs = << >>)

C2_Witness ==
    /\ BlendDone
    /\ k > 0
    /\ Cardinality(Range(recs_offline) \cup Range(recs_online)) > k
    /\ Len(response.recs) = k

\* C3: the blended result is the reference interleave-then-append-then-dedup-
\* then-truncate; an empty online list passes a duplicate-free offline list of
\* at most k tracks through unchanged, an empty offline list passes the online
\* list through (its first k tracks), and the tracks of the result stand in the
\* order of their first occurrences in the interleaved sequence.
C3_BlendIsReference ==
    BlendDone =>
        LET res == response.recs
            seq == RefInterleaved(recs_offline, recs_online)
        IN  /\ res = RefBlend(recs_offline, recs_online, k)
            /\ (recs_online = << >> /\ NoDup(recs_offline) /\ Len(recs_offline) <= k
                    => res = recs_offline)
            /\ (recs_offline = << >> /\ NoDup(recs_online)
                    => res = FirstN(recs_online, k))
            /\ \A a, b \in Range(res) :
                    Before(res, a, b) <=> FirstIdx(seq, a) < FirstIdx(seq, b)

C3_Witness ==
    /\ BlendDone
    /\ Len(recs_offline) = 3
    /\ Len(recs_online) = 2
    /\ NoDup(recs_offline)
    /\ Range(recs_offline) \cap Range(recs_online) # {}
    /\ recs_online[1] # recs_offline[1]
    /\ Len(response.recs) = 3
    /\ response.recs # recs_offline

\* C4 as stated: for any two tracks a and b of the result, if a precedes b in
\* the offline list then a precedes b in the result, and likewise for the online
\* list, for all duplicate-free lists, also when they share tracks.
C4_OrderRespected_AsStated ==
    BlendDone /\ NoDup(recs_offline) /\ NoDup(recs_online) =>
        \A a, b \in Range(response.recs) :
            /\ Before(recs_offline, a, b) => Before(response.recs, a, b)
            /\ Before(recs_online, a, b) => Before(response.recs, a, b)

\* C4 amended: for any two tracks a and b of the result, if a precedes b in the
\* offline list and b does not occur in the online list then a precedes b in the
\* result, and likewise if a precedes b in the online list and b does not occur
\* in the offline list (duplicate-free lists); in particular the result respects
\* both internal orders when the lists share no track.
C4_OrderRespected ==
    BlendDone /\ NoDup(recs_offline) /\ NoDup(recs_online) =>
        \A a, b \in Range(response.recs) :
            /\ Before(recs_offline, a, b) /\ b \notin Range(recs_online)
                    => Before(response.recs, a, b)
            /\ Before(recs_online, a, b) /\ b \notin Range(recs_offline)
                    => Before(response.recs, a, b)

C4_Witness ==
    /\ BlendDone
    /\ NoDup(recs_offline)
    /\ NoDup(recs_online)
    /\ Len(recs_offline) = 3
    /\ Len(recs_online) = 2
    /\ Range(recs_offline) \cap Range(recs_online) # {}
    /\ Len(response.recs) = 3
    /\ \E a, b \in Range(response.recs) :
            /\ Before(recs_offline, a, b)
            /\ b \notin Range(recs_online)
            /\ a \in Range(recs_online)

----------------------------------------------------------------------------
(* C5 .. C10: the service as a whole (Spec) *)

\* the call did not give a payload: requests.post raised, the status was not
\* 200, or the body was not JSON (resp.json() raised)
Failed(resp) == resp.kind \in {"raise", "non200", "badjson"}

\* a payload of the expected shape: two lists of equal length, numeric scores
WellFormed(resp) ==
    /\ resp.kind = "ok"
    /\ Len(resp.ids) = Len(resp.scores)
    /\ Range(resp.scores) \subseteq Scores

Malformed(resp) == ~Failed(resp) /\ ~WellFormed(resp)

\* the history call gave a non-empty history, so the similarity loop ran
LoopEntered == hist_resp.kind = "ok" /\ events # << >>

\* recommendations_online has returned after running the similarity loop
OnlineAssembled == pc \in {"blend", "done"} /\ LoopEntered

AllSimFailed ==
    /\ LoopEntered
    /\ Len(sim_calls) = Len(events)
    /\ \A i \in 1 .. Len(sim_calls) : Failed(sim_calls[i])

\* the (track_id, score) pairs of the calls that gave a well-formed payload, in
\* the order of the calls and, within a call, of the provider
RECURSIVE PoolOf(_)
PoolOf(calls) ==
    IF calls = << >> THEN << >>
    ELSE LET c == calls[Len(calls)]
         IN  PoolOf(SubSeq(calls, 1, Len(calls) - 1))
                \o (IF WellFormed(c) THEN Zip(c.ids, c.scores) ELSE << >>)

\* what the assembly makes of the well-formed payloads alone
RefOnline(calls) == dedup_ids(ItemsOf(Sorted(PoolOf(calls))))

\* C5: if the similarity call fails for every track of a non-empty history, the
\* online assembly returns the empty list and the /recommendations result is the
\* offline list (a duplicate-free CandidateList) truncated to k.
C5_GracefulDegradation ==
    AllSimFailed /\ pc \in {"blend", "done"} =>
        /\ recs_online = << >>
        /\ (pc = "done" /\ endpoint = "online" => response.recs = << >>)
        /\ (pc = "done" /\ endpoint = "blend" /\ NoDup(recs_offline)
                => response.recs = FirstN(recs_offline, k))

C5_Witness ==
    /\ AllSimFailed
    /\ pc = "done"
    /\ endpoint = "blend"
    /\ Len(events) = 3
    /\ Len(recs_offline) = 2
    /\ NoDup(recs_offline)
    /\ response.recs = recs_offline

\* C6: Recommendations.get(user_id, k) returns the first k entries of the user's
\* personal list when the user has a personal entry, and the first k entries of
\* the default list when the user has none; for k >= 1 it is empty for a user
\* without a personal entry only if the default list is empty.
C6_GetContract ==
    offline_outcome \in {"personal", "default", "error"} =>
        LET rows == Loc(recs_personal, user_id)
        IN  /\ (rows # << >> => recs_offline = FirstN(rows, k))
            /\ (rows = << >> => recs_offline = FirstN(recs_default, k))
            /\ (rows = << >> /\ recs_default # << >> /\ k >= 1 => recs_offline # << >>)

\* C7: whatever the outcomes of the history call, the similarity calls and the
\* offline lookup, /recommendations answers with status 200 and a list of
\* tracks, and when every upstream fails the list is empty.
C7_NeverSurfacesErrors ==
    endpoint = "blend" =>
        /\ response.status \in {0, 200}
        /\ (pc = "done" <=> response.status = 200)
        /\ response.recs \in Seq(Tracks)
        /\ (pc = "done" /\ offline_outcome = "raised" => response.recs = << >>)
        /\ (pc = "done" /\ offline_outcome = "error"
               /\ (hist_resp.kind \in {"raise", "non200"} \/ AllSimFailed)
                => response.recs = << >>)

C7_Witness ==
    /\ endpoint = "blend"
    /\ pc = "done"
    /\ offline_outcome = "error"
    /\ AllSimFailed
    /\ \E i, j \in 1 .. Len(sim_calls) :
            sim_calls[i].kind = "raise" /\ sim_calls[j].kind = "non200"
    /\ response = [status |-> 200, recs |-> << >>]

\* C8: every list returned by /recommendations_online has length <= the
\* requested k.
C8_OnlineLengthBound ==
    pc = "done" /\ endpoint = "online" => Len(response.recs) <= k

\* C9: a similarity call that fails or returns no candidates skips only its own
\* track: one call is issued per history track whatever the earlier calls gave,
\* the pool holds exactly the pairs of the calls that succeeded, and the online
\* list is what the assembly makes of them (payloads of the expected shape).
C9_IndependentCalls ==
    LET clean == \A i \in 1 .. Len(sim_calls) : ~Malformed(sim_calls[i])
    IN  /\ (pc = "similar" => Len(sim_calls) = idx - 1 /\ idx <= Len(events))
        /\ (LoopEntered /\ pc \in {"assemble", "blend", "done"}
                => Len(sim_calls) = Len(events))
        /\ (pc \in {"similar", "assemble"} /\ clean
                => Len(items) = Len(scores) /\ Zip(items, scores) = PoolOf(sim_calls))
        /\ (OnlineAssembled /\ clean => recs_online = RefOnline(sim_calls))

C9_Witness ==
    /\ OnlineAssembled
    /\ Len(events) = 3
    /\ Failed(sim_calls[1])
    /\ WellFormed(sim_calls[2]) /\ sim_calls[2].ids = << >>
    /\ WellFormed(sim_calls[3]) /\ Len(sim_calls[3].ids) = 2
    /\ Len(recs_online) = 2

\* C10: a malformed similarity response for one history track is treated as that
\* call being unavailable: the online list is what the assembly makes of the
\* well-formed payloads of the other tracks, ids and scores correctly paired.
C10_MalformedAsUnavailable ==
    OnlineAssembled => recs_online = RefOnline(sim_calls)

----------------------------------------------------------------------------
(* C11: the order of the online list (Spec) *)

\* the pairs of one payload, in the order the provider returned them
PairsOf(c) == [i \in 1 .. Len(c.ids) |-> [item |-> c.ids[i], score |-> c.scores[i]]]

\* the pooled pairs: history-processing order, then provider order
RECURSIVE RefPool(_)
RefPool(calls) ==
    IF calls = << >> THEN << >>
    ELSE (IF WellFormed(Head(calls)) THEN PairsOf(Head(calls)) ELSE << >>)
            \o RefPool(Tail(calls))

\* the place of pool[i] after a stable sort by score, descending: behind every
\* pair of a higher score and every earlier pair of the same score
RefRank(pool, i) ==
    1 + Cardinality({j \in 1 .. Len(pool) :
                        \/ pool[j].score > pool[i].score
                        \/ pool[j].score = pool[i].score /\ j < i})

RefSorted(pool) ==
    [p \in 1 .. Len(pool) |-> pool[CHOOSE i \in 1 .. Len(pool) : RefRank(pool, i) = p]]

\* the best pooled occurrence of track t: the highest score, the earliest on ties
BestOf(pool, t) ==
    CHOOSE i \in 1 .. Len(pool) :
        /\ pool[i].item = t
        /\ \A j \in 1 .. Len(pool) :
              pool[j].item = t /\ j # i =>
                 \/ pool[j].score < pool[i].score
                 \/ pool[j].score = pool[i].score /\ i < j

\* C11: the online list is the pooled (track_id, score) pairs, in history order
\* then provider order, sorted by score descending with ties in pooling order,
\* then deduplicated keeping the first occurrence; so every pooled track occurs
\* once, placed by its highest-scoring (on ties earliest) pooled occurrence.
C11_OnlineOrder ==
    OnlineAssembled /\ (\A i \in 1 .. Len(sim_calls) : ~Malformed(sim_calls[i])) =>
        LET pool == RefPool(sim_calls)
        IN  /\ recs_online = FirstOccurrences(
                    [p \in 1 .. Len(pool) |-> RefSorted(pool)[p].item])
            /\ Range(recs_online) = {pool[i].item : i \in 1 .. Len(pool)}
            /\ \A a, b \in Range(recs_online) :
                    Before(recs_online, a, b) <=>
                        RefRank(pool, BestOf(pool, a)) < RefRank(pool, BestOf(pool, b))

\* three calls with k = 2: tracks 3 and 1 tie at the top and keep their pooling
\* order, tracks 2 and 3 tie at the bottom; track 3 is pooled with its lower
\* score first and track 1 likewise, and each is placed by its higher score
C11_Witness ==
    /\ OnlineAssembled
    /\ k = 2
    /\ Len(sim_calls) = 3
    /\ RefPool(sim_calls) = << [item |-> 2, score |-> 1], [item |-> 3, score |-> 1],
                               [item |-> 3, score |-> 2], [item |-> 1, score |-> 1],
                               [item |-> 1, score |-> 2] >>
    /\ recs_online = << 3, 1, 2 >>

----------------------------------------------------------------------------
(* C12: termination of a request (SpecLive) *)

\* a request has been received and not answered yet
InProgress == pc \notin {"idle", "done"}

\* C12: no operation blocks indefinitely: a request that is not answered yet can
\* always take a further step, also when a collaborator never responds (the call
\* times out and counts as an empty result).
C12_NoCallBlocks == pc = "done" \/ ENABLED Next

\* C12, as a property of behaviours: every request received is eventually
\* answered.
C12_EventuallyCompletes == InProgress ~> (pc = "done")

====
